---- MODULE Spec2Model ----
(***************************************************************************)
(* Movie persistence and association resolution: the crud layer            *)
(* (src/src/crud/movies.py), the request handlers that drive it            *)
(* (src/src/routes/movies.py) and the payload schemas                      *)
(* (src/src/schemas/movies.py).                                            *)
(*                                                                         *)
(* Storage is five tables: movies, one reference table per kind (country,  *)
(* genre, actor, language) and one link table per many-to-many kind.       *)
(* Optional values (Python's None) are the string "None" for scalars and   *)
(* the empty set / empty sequence for rows and links.                      *)
(***************************************************************************)
EXTENDS Integers, Sequences, FiniteSets, TLC

VARIABLES
  movies,       \* the movies table: a set of movie rows
  refs,         \* refs[kind]: the reference table of that kind, rows [id, key]
  links,        \* links[kind]: the join table of that kind, a sequence of [movie_id, ref_id]
  nextMovieId,  \* the movies table's id sequence
  nextRefId,    \* nextRefId[kind]: the reference table's id sequence
  last,         \* the last request handled run-to-completion and its response
  ncommit,      \* number of transactions the handlers have ended (commit or rollback)
  sess          \* sess[s]: the state of the concurrent create request of session s

vars == <<movies, refs, links, nextMovieId, nextRefId, last, ncommit, sess>>

None == "None"

Kinds == {"country", "genre", "actor", "language"}
LinkKinds == {"genre", "actor", "language"}
ScalarFields == {"name", "date", "score", "overview", "status", "budget", "revenue"}

DB == [movies |-> movies, refs |-> refs, links |-> links,
       nextMovieId |-> nextMovieId, nextRefId |-> nextRefId]

EmptyDB == [movies |-> {}, refs |-> [k \in Kinds |-> {}], links |-> [k \in LinkKinds |-> <<>>],
            nextMovieId |-> 1, nextRefId |-> [k \in Kinds |-> 1]]

Min(a, b) == IF a < b THEN a ELSE b

Range(s) == {s[i] : i \in 1..Len(s)}

HasDuplicates(s) == \E i, j \in 1..Len(s) : i < j /\ s[i] = s[j]

\* db.scalar(stmt): the first row of the result, None (the empty set) when there is none
Scalar(rows) ==
  IF rows = {} THEN {} ELSE {CHOOSE r \in rows : \A q \in rows : r.id <= q.id}

(***************************************************************************)
(* crud/movies.py: reads                                                   *)
(***************************************************************************)

\* .order_by(MovieModel.id.desc()): the rows with id <= top, greatest id first
RECURSIVE ScanIdDesc(_, _)
ScanIdDesc(rows, top) ==
  IF top < 1 THEN <<>>
  ELSE LET here == {r \in rows : r.id = top}
       IN (IF here = {} THEN <<>> ELSE <<CHOOSE r \in here : TRUE>>)
          \o ScanIdDesc(rows, top - 1)

OrderByIdDesc(db) == ScanIdDesc(db.movies, db.nextMovieId - 1)

OffsetLimit(s, offset, limit) == SubSeq(s, offset + 1, Min(Len(s), offset + limit))

\* a window that starts one page too far: offset page * per_page
get_movies_paginated_offset(db, page, per_page) ==
  [movies |-> OffsetLimit(OrderByIdDesc(db), page * per_page, per_page),
   total_items |-> Cardinality(db.movies)]

get_movies_paginated(db, page, per_page) ==
  LET total_items == Cardinality(db.movies)
      window == OffsetLimit(OrderByIdDesc(db), (page - 1) * per_page, per_page)
  IN [movies |-> window, total_items |-> total_items]

\* selectinload of a many-to-many relationship: the reference rows the movie's link rows name
LoadLinked(db, kind, movie_id) ==
  LET mine == SelectSeq(db.links[kind], LAMBDA l : l.movie_id = movie_id)
  IN [i \in 1..Len(mine) |-> CHOOSE r \in db.refs[kind] : r.id = mine[i].ref_id]

Hydrate(db, m) ==
  [id |-> m.id, name |-> m.name, date |-> m.date, score |-> m.score,
   overview |-> m.overview, status |-> m.status, budget |-> m.budget,
   revenue |-> m.revenue,
   country |-> CHOOSE r \in db.refs["country"] : r.id = m.country_id,
   genres |-> LoadLinked(db, "genre", m.id),
   actors |-> LoadLinked(db, "actor", m.id),
   languages |-> LoadLinked(db, "language", m.id)]

get_movie_by_id(db, movie_id) ==
  {Hydrate(db, m) : m \in Scalar({r \in db.movies : r.id = movie_id})}

\* the date column compared with the name argument
get_movie_by_name_and_date_mixed(db, name, release_date) ==
  Scalar({r \in db.movies : r.name = name /\ r.date = name})

get_movie_by_name_and_date(db, name, release_date) ==
  Scalar({r \in db.movies : r.name = name /\ r.date = release_date})

(***************************************************************************)
(* crud/movies.py: reference resolution                                    *)
(***************************************************************************)

\* db.scalar(select(model).where(<key column> == key))
select_by_key(db, kind, key) == Scalar({r \in db.refs[kind] : r.key = key})

\* obj = model(<key column>=key); db.add(obj); await db.flush()
add_and_flush(db, kind, key) ==
  LET row == [id |-> db.nextRefId[kind], key |-> key]
  IN [obj |-> row,
      db |-> [db EXCEPT !.refs[kind] = @ \cup {row}, !.nextRefId[kind] = @ + 1]]

get_or_create_country(db, code) ==
  LET country == select_by_key(db, "country", code)
  IN IF country # {}
     THEN [obj |-> CHOOSE r \in country : TRUE, db |-> db]
     ELSE add_and_flush(db, "country", code)

\* create without the lookup
get_or_create_by_name_blind(db, model, name) == add_and_flush(db, model, name)

get_or_create_by_name(db, model, name) ==
  LET obj == select_by_key(db, model, name)
  IN IF obj # {}
     THEN [obj |-> CHOOSE r \in obj : TRUE, db |-> db]
     ELSE add_and_flush(db, model, name)

\* [await _get_or_create_by_name(db, Model, name) for name in names]
RECURSIVE get_or_create_each(_, _, _)
get_or_create_each(db, model, names) ==
  IF names = <<>> THEN [objs |-> <<>>, db |-> db]
  ELSE LET h == get_or_create_by_name(db, model, Head(names))
           t == get_or_create_each(h.db, model, Tail(names))
       IN [objs |-> <<h.obj>> \o t.objs, db |-> t.db]

(***************************************************************************)
(* The storage layer's commit.  The join tables are declared outside the   *)
(* crud layer; whether a join table rejects a second identical             *)
(* (movie_id, ref_id) row is a property of that declaration, so a commit   *)
(* takes it as the parameter link_pk.  A rejected commit raises            *)
(* IntegrityError and rolls the transaction back; the id sequences keep    *)
(* the values already drawn.                                               *)
(***************************************************************************)

NewLinks(before, staged, kind) ==
  SubSeq(staged.links[kind], Len(before.links[kind]) + 1, Len(staged.links[kind]))

Commit(before, staged, link_pk) ==
  IF link_pk /\ \E k \in LinkKinds : HasDuplicates(NewLinks(before, staged, k))
  THEN [raised |-> "IntegrityError",
        db |-> [before EXCEPT !.nextMovieId = staged.nextMovieId,
                              !.nextRefId = staged.nextRefId]]
  ELSE [raised |-> None, db |-> staged]

(***************************************************************************)
(* crud/movies.py: writes                                                  *)
(***************************************************************************)

InsertLinks(ls, movie_id, objs) ==
  ls \o [i \in 1..Len(objs) |-> [movie_id |-> movie_id, ref_id |-> objs[i].id]]

\* an insert that is skipped when a movie with the same (name, date) is stored
AddMovie_unless_stored(db, data, country, genres, actors, languages) ==
  IF \E m \in db.movies : m.name = data.name /\ m.date = data.date
  THEN [db EXCEPT !.nextMovieId = @ + 1]
  ELSE [db EXCEPT !.movies = @ \cup {[id |-> db.nextMovieId, name |-> data.name,
                                      date |-> data.date, score |-> data.score,
                                      overview |-> data.overview, status |-> data.status,
                                      budget |-> data.budget, revenue |-> data.revenue,
                                      country_id |-> country.id]},
                  !.nextMovieId = @ + 1,
                  !.links["genre"] = InsertLinks(@, db.nextMovieId, genres),
                  !.links["actor"] = InsertLinks(@, db.nextMovieId, actors),
                  !.links["language"] = InsertLinks(@, db.nextMovieId, languages)]

\* MovieModel(...); db.add(movie): the movie row and one link row per list element
AddMovie(db, data, country, genres, actors, languages) ==
  LET movie == [id |-> db.nextMovieId, name |-> data.name, date |-> data.date,
                score |-> data.score, overview |-> data.overview,
                status |-> data.status, budget |-> data.budget,
                revenue |-> data.revenue, country_id |-> country.id]
  IN [db EXCEPT !.movies = @ \cup {movie},
                !.nextMovieId = @ + 1,
                !.links["genre"] = InsertLinks(@, movie.id, genres),
                !.links["actor"] = InsertLinks(@, movie.id, actors),
                !.links["language"] = InsertLinks(@, movie.id, languages)]

crud_create_movie(db, data, link_pk) ==
  LET country == get_or_create_country(db, data.country)
      genres == get_or_create_each(country.db, "genre", data.genres)
      actors == get_or_create_each(genres.db, "actor", data.actors)
      languages == get_or_create_each(actors.db, "language", data.languages)
      staged == AddMovie(languages.db, data, country.obj, genres.objs,
                         actors.objs, languages.objs)
      done == Commit(db, staged, link_pk)
  IN [raised |-> done.raised, db |-> done.db,
      movie |-> IF done.raised = None
                THEN get_movie_by_id(done.db, languages.db.nextMovieId)
                ELSE {}]

\* data.model_dump(): every field, the unset ones with their default
model_dump_all(data) == data.values

\* data.model_dump(exclude_unset=True): only the fields the request body names
model_dump_exclude_unset(data) == [f \in data.fields_set |-> data.values[f]]

crud_update_movie(db, movie, data) ==
  LET update_data == model_dump_exclude_unset(data)
      setattrs(row) == [f \in DOMAIN row |->
                          IF f \in DOMAIN update_data THEN update_data[f] ELSE row[f]]
  IN [db EXCEPT !.movies = {IF r.id = movie.id THEN setattrs(r) ELSE r : r \in @}]

\* a delete that also removes the reference rows no remaining movie uses
crud_delete_movie_orphans(db, movie) ==
  LET left == {r \in db.movies : r.id # movie.id}
      kept == [k \in LinkKinds |-> SelectSeq(db.links[k], LAMBDA l : l.movie_id # movie.id)]
  IN [db EXCEPT
        !.movies = left,
        !.links = kept,
        !.refs = [k \in Kinds |->
                    IF k = "country"
                    THEN {r \in db.refs[k] : \E m \in left : m.country_id = r.id}
                    ELSE {r \in db.refs[k] :
                            \E i \in 1..Len(kept[k]) : kept[k][i].ref_id = r.id}]]

\* db.delete(movie): the movie row and, through the relationships, its link rows
crud_delete_movie(db, movie) ==
  [db EXCEPT !.movies = {r \in @ : r.id # movie.id},
             !.links = [k \in LinkKinds |->
                          SelectSeq(@[k], LAMBDA l : l.movie_id # movie.id)]]

(***************************************************************************)
(* routes/movies.py: the handlers, each run to completion                  *)
(***************************************************************************)

NoData == <<>>
NoLink == <<>>
PageLink(page, per_page) == <<page, per_page>>

Response(op, movie_id, data, page, per_page, status, body, repo) ==
  [op |-> op, movie_id |-> movie_id, data |-> data, page |-> page,
   per_page |-> per_page, status |-> status, body |-> body, repo |-> repo]

NoResponse == Response("none", 0, NoData, 0, 0, 0, {}, NoData)

SetDB(db) ==
  /\ movies' = db.movies
  /\ refs' = db.refs
  /\ links' = db.links
  /\ nextMovieId' = db.nextMovieId
  /\ nextRefId' = db.nextRefId

SetDBInit ==
  /\ movies = EmptyDB.movies
  /\ refs = EmptyDB.refs
  /\ links = EmptyDB.links
  /\ nextMovieId = EmptyDB.nextMovieId
  /\ nextRefId = EmptyDB.nextRefId

\* MovieListItemSchema
ListItem(m) == [id |-> m.id, name |-> m.name, date |-> m.date, score |-> m.score,
                overview |-> m.overview]

\* total_pages by floor division
list_movies_response_floor(page, per_page, got) ==
  IF got.movies = <<>>
  THEN [status |-> 404, body |-> {}]
  ELSE LET total_pages == got.total_items \div per_page
       IN [status |-> 200,
           body |-> [movies |-> [i \in 1..Len(got.movies) |-> ListItem(got.movies[i])],
                     prev_page |-> IF page > 1 THEN PageLink(page - 1, per_page) ELSE NoLink,
                     next_page |-> IF page < total_pages
                                   THEN PageLink(page + 1, per_page) ELSE NoLink,
                     total_pages |-> total_pages,
                     total_items |-> got.total_items]]

list_movies_response(page, per_page, got) ==
  IF got.movies = <<>>
  THEN [status |-> 404, body |-> {}]
  ELSE LET total_pages == (got.total_items + per_page - 1) \div per_page
       IN [status |-> 200,
           body |-> [movies |-> [i \in 1..Len(got.movies) |-> ListItem(got.movies[i])],
                     prev_page |-> IF page > 1 THEN PageLink(page - 1, per_page) ELSE NoLink,
                     next_page |-> IF page < total_pages
                                   THEN PageLink(page + 1, per_page) ELSE NoLink,
                     total_pages |-> total_pages,
                     total_items |-> got.total_items]]

list_movies(page, per_page) ==
  LET got == get_movies_paginated(DB, page, per_page)
      resp == list_movies_response(page, per_page, got)
  IN /\ last' = Response("list", 0, NoData, page, per_page, resp.status, resp.body, got)
     /\ UNCHANGED <<movies, refs, links, nextMovieId, nextRefId, ncommit, sess>>

create_movie(data) ==
  LET existing == get_movie_by_name_and_date(DB, data.name, data.date)
  IN IF existing # {}
     THEN /\ last' = Response("create", 0, data, 0, 0, 409, {}, NoData)
          /\ UNCHANGED <<movies, refs, links, nextMovieId, nextRefId, ncommit, sess>>
     ELSE \E link_pk \in BOOLEAN :
            LET made == crud_create_movie(DB, data, link_pk)
            IN /\ SetDB(made.db)
               /\ last' = Response("create", 0, data, 0, 0,
                                   IF made.raised = None THEN 201 ELSE 500,
                                   made.movie, NoData)
               /\ ncommit' = ncommit + 1
               /\ UNCHANGED sess

get_movie(movie_id) ==
  LET movie == get_movie_by_id(DB, movie_id)
  IN /\ last' = Response("get", movie_id, NoData, 0, 0,
                         IF movie = {} THEN 404 ELSE 200, movie, NoData)
     /\ UNCHANGED <<movies, refs, links, nextMovieId, nextRefId, ncommit, sess>>

delete_movie(movie_id) ==
  LET movie == get_movie_by_id(DB, movie_id)
  IN IF movie = {}
     THEN /\ last' = Response("delete", movie_id, NoData, 0, 0, 404, {}, NoData)
          /\ UNCHANGED <<movies, refs, links, nextMovieId, nextRefId, ncommit, sess>>
     ELSE /\ SetDB(crud_delete_movie(DB, CHOOSE m \in movie : TRUE))
          /\ last' = Response("delete", movie_id, NoData, 0, 0, 204, {}, NoData)
          /\ ncommit' = ncommit + 1
          /\ UNCHANGED sess

update_movie(movie_id, data) ==
  LET movie == get_movie_by_id(DB, movie_id)
  IN IF movie = {}
     THEN /\ last' = Response("update", movie_id, data, 0, 0, 404, {}, NoData)
          /\ UNCHANGED <<movies, refs, links, nextMovieId, nextRefId, ncommit, sess>>
     ELSE /\ SetDB(crud_update_movie(DB, CHOOSE m \in movie : TRUE, data))
          /\ last' = Response("update", movie_id, data, 0, 0, 200, {}, NoData)
          /\ ncommit' = ncommit + 1
          /\ UNCHANGED sess

(***************************************************************************)
(* schemas/movies.py: the validated payloads and the request inputs        *)
(***************************************************************************)

Names == {"n1", "n2"}
Dates == {"d1", "d2"}
Scores == {"s1", "s2"}
Countries == {"c1", "c2"}

\* list_movies: page = Query(1, ge=1), per_page = Query(10, ge=1, le=20)
PageMin == 1
PerPageMin == 1
PerPageMax == 20

MaxCommits == 3
MaxPage == 3

MovieCreateSchema(name, date, score, country, genres, actors, languages) ==
  [name |-> name, date |-> date, score |-> score, overview |-> "o1",
   status |-> "Released", budget |-> "b1", revenue |-> "r1", country |-> country,
   genres |-> genres, actors |-> actors, languages |-> languages]

\* A request body naming the fields DOMAIN given; every other field keeps its default, None
MovieUpdateSchema(given) ==
  [fields_set |-> DOMAIN given,
   values |-> [f \in ScalarFields |-> IF f \in DOMAIN given THEN given[f] ELSE None]]

\* The values a present field of an update body can carry (each field is Optional)
UpdateValues(f) ==
  CASE f = "name" -> Names \cup {None}
    [] f = "date" -> Dates \cup {None}
    [] f = "score" -> Scores \cup {None}
    [] f = "overview" -> {"o2", None}
    [] f = "status" -> {"Planned", None}
    [] f = "budget" -> {"b2", None}
    [] f = "revenue" -> {"r2", None}

AllUpdateValues == UNION {UpdateValues(f) : f \in ScalarFields}

UpdateBodies(fields, maxSet) ==
  {MovieUpdateSchema(g) :
     g \in UNION {{h \in [S -> AllUpdateValues] : \A f \in S : h[f] \in UpdateValues(f)} :
                    S \in {T \in SUBSET fields : Cardinality(T) <= maxSet}}}

\* country, genres, actors, languages of the create bodies sent one after another
RefInputs ==
  {<<"c1", <<"g1">>, <<"a1">>, <<"l1">>>>,
   <<"c2", <<"g1", "g2">>, <<>>, <<"l1">>>>}

CreateInputs ==
  {MovieCreateSchema(n, d, "s1", r[1], r[2], r[3], r[4]) :
     n \in Names, d \in Dates, r \in RefInputs}

UpdateInputs == UpdateBodies({"name", "date"}, 1)

PerPageInputs == {PerPageMin, 2, PerPageMax}

(***************************************************************************)
(* Requests handled one after another                                      *)
(***************************************************************************)

NoSessions == <<>>

Init ==
  /\ SetDBInit
  /\ last = NoResponse
  /\ ncommit = 0
  /\ sess = NoSessions

CreateMovie == ncommit < MaxCommits /\ \E data \in CreateInputs : create_movie(data)

GetMovie == \E id \in 1..nextMovieId : get_movie(id)

UpdateMovie ==
  ncommit < MaxCommits /\ \E id \in 1..nextMovieId, data \in UpdateInputs : update_movie(id, data)

DeleteMovie == ncommit < MaxCommits /\ \E id \in 1..nextMovieId : delete_movie(id)

ListMovies ==
  \E page \in PageMin..MaxPage, per_page \in PerPageInputs : list_movies(page, per_page)

Next == CreateMovie \/ GetMovie \/ UpdateMovie \/ DeleteMovie \/ ListMovies

Spec == Init /\ [][Next]_vars

(***************************************************************************)
(* Properties of the requests handled one after another                    *)
(***************************************************************************)

SamePair(m1, m2) == m1.name = m2.name /\ m1.date = m2.date

RowOf(table, id) == CHOOSE r \in table : r.id = id

Referenced(kind, ref_id) ==
  IF kind = "country"
  THEN \E m \in movies : m.country_id = ref_id
  ELSE \E i \in 1..Len(links[kind]) : links[kind][i].ref_id = ref_id

\* C1: after any sequence of create, update and delete requests run one after
\* another, no two stored movies share the same (name, release date) pair.
C1_UniqueNameDate ==
  \A m1, m2 \in movies : SamePair(m1, m2) => m1.id = m2.id

\* C6: a delete of an existing movie removes the movie row and its link rows, so
\* that get_by_id of that id finds nothing afterwards; every reference row is
\* kept, referenced or not, and every other movie keeps its fields and links.
C6_DeleteFrame ==
  [][(last'.op = "delete" /\ last'.status = 204) =>
       LET id == last'.movie_id
       IN /\ \E m \in movies : m.id = id
          /\ movies' = {m \in movies : m.id # id}
          /\ get_movie_by_id(DB', id) = {}
          /\ \A k \in LinkKinds :
               \A i \in 1..Len(links'[k]) : links'[k][i].movie_id # id
          /\ refs' = refs
          /\ \A m \in movies :
               m.id # id => get_movie_by_id(DB', m.id) = get_movie_by_id(DB, m.id)]_vars

C6_Witness ==
  /\ last.op = "delete"
  /\ last.status = 204
  /\ movies # {}
  /\ \E k \in LinkKinds : \E r \in refs[k] : ~Referenced(k, r.id)
  /\ \E k \in LinkKinds : \E r \in refs[k] : Referenced(k, r.id)
  /\ \E r \in refs["country"] : ~Referenced("country", r.id)

\* C8: list(page, per_page) returns the stored movies in descending id order
\* restricted to positions (page-1)*per_page .. page*per_page-1 of that order,
\* with total_count the number of stored movies; a page beyond the last is an
\* empty window.
C8_ListWindow ==
  last.op = "list" =>
    LET window == last.repo.movies
        offset == (last.page - 1) * last.per_page
        total == Cardinality(movies)
        rest == IF total > offset THEN total - offset ELSE 0
    IN /\ last.repo.total_items = total
       /\ Len(window) = Min(last.per_page, rest)
       /\ \A i \in 1..Len(window) :
            /\ window[i] \in movies
            /\ Cardinality({m \in movies : m.id > window[i].id}) = offset + i - 1

C8_Witness ==
  /\ last.op = "list"
  /\ last.page = 2
  /\ last.per_page = 2
  /\ Cardinality(movies) = 3
  /\ Len(last.repo.movies) = 1
  /\ last.repo.movies[1].id = 1

(***************************************************************************)
(* Create requests with repeated and shared reference keys, one after      *)
(* another                                                                 *)
(***************************************************************************)

MaxCreates == 2

\* genres, actors, languages of the create bodies
ListInputs ==
  {<<<<>>, <<>>, <<>>>>,
   <<<<"g1">>, <<"a1">>, <<"l1">>>>,
   <<<<"g1", "g2">>, <<"a1">>, <<>>>>,
   <<<<"g1", "g1">>, <<"a2">>, <<"l1">>>>,
   <<<<"g2">>, <<"a1", "a1">>, <<"l2">>>>,
   <<<<"g2", "g1">>, <<"a2", "a1">>, <<"l1", "l2", "l1">>>>}

ListedCreateInputs ==
  {MovieCreateSchema(n, d, "s1", c, r[1], r[2], r[3]) :
     n \in Names, d \in Dates, c \in Countries, r \in ListInputs}

CreateListed == ncommit < MaxCreates /\ \E data \in ListedCreateInputs : create_movie(data)

GetCreated == ncommit < MaxCreates /\ \E id \in 1..nextMovieId : get_movie(id)

NextCreate == CreateListed \/ GetCreated

SpecCreate == Init /\ [][NextCreate]_vars

KeysOf(rows) == {r.key : r \in rows}

UniqueByKey(rows) == \A r1, r2 \in rows : r1.key = r2.key => r1 = r2

\* the keys a create body names for a kind
PayloadKeys(data, kind) ==
  CASE kind = "country" -> {data.country}
    [] kind = "genre" -> Range(data.genres)
    [] kind = "actor" -> Range(data.actors)
    [] kind = "language" -> Range(data.languages)

\* the reference rows of a kind a stored movie is linked to
LinkedRows(db, kind, m) ==
  IF kind = "country"
  THEN {r \in db.refs[kind] : r.id = m.country_id}
  ELSE {r \in db.refs[kind] :
          \E i \in 1..Len(db.links[kind]) :
            db.links[kind][i] = [movie_id |-> m.id, ref_id |-> r.id]}

\* C2: after any sequence of creates, each kind holds at most one reference row
\* per key and two movies naming the same key are linked to the same row; a
\* create keeps every existing row and inserts exactly one row per key that was
\* absent.
C2_ReferenceDedup ==
  [][last'.op = "create" =>
       \A k \in Kinds :
         /\ UniqueByKey(refs'[k])
         /\ refs[k] \subseteq refs'[k]
         /\ \A m1, m2 \in movies' :
              \A r1 \in LinkedRows(DB', k, m1), r2 \in LinkedRows(DB', k, m2) :
                r1.key = r2.key => r1.id = r2.id
         /\ last'.status = 201 =>
              /\ KeysOf(refs'[k]) = KeysOf(refs[k]) \cup PayloadKeys(last'.data, k)
              /\ \A m \in movies' \ movies :
                   KeysOf(LinkedRows(DB', k, m)) = PayloadKeys(last'.data, k)]_vars

C2_Witness ==
  /\ last.op = "create"
  /\ last.status = 201
  /\ \E m1, m2 \in movies :
       /\ m1.id # m2.id
       /\ \A k \in Kinds :
            \E r \in refs[k] : r \in LinkedRows(DB, k, m1) /\ r \in LinkedRows(DB, k, m2)
       /\ \E r \in refs["genre"] :
            r \in LinkedRows(DB, "genre", m2) /\ r \notin LinkedRows(DB, "genre", m1)

\* C3: a create whose (name, date) pair is already stored ends with Conflict
\* (409) and adds no movie row, no link row and no reference row.
C3_ConflictPersistsNothing ==
  [][(/\ last'.op = "create"
      /\ \E m \in movies : m.name = last'.data.name /\ m.date = last'.data.date)
     => /\ last'.status = 409
        /\ DB' = DB]_vars

C3_Witness ==
  /\ last.op = "create"
  /\ last.status = 409
  /\ movies # {}
  /\ \A k \in Kinds :
       PayloadKeys(last.data, k) # {} /\ PayloadKeys(last.data, k) \cap KeysOf(refs[k]) = {}

\* C4: every create whose (name, date) pair is not stored succeeds (also when a
\* list repeats a name), and get_by_id of the new id returns the payload's
\* scalar fields and exactly the reference entities of the payload's keys, each
\* linked once.
C4_CreateReadBack ==
  (last.op = "create" /\ last.status # 409) =>
    /\ last.status = 201
    /\ \E m \in last.body :
         /\ get_movie_by_id(DB, m.id) = {m}
         /\ \A f \in ScalarFields : m[f] = last.data[f]
         /\ m.country.key = last.data.country
         /\ KeysOf(Range(m.genres)) = Range(last.data.genres)
         /\ KeysOf(Range(m.actors)) = Range(last.data.actors)
         /\ KeysOf(Range(m.languages)) = Range(last.data.languages)
         /\ ~HasDuplicates(m.genres)
         /\ ~HasDuplicates(m.actors)
         /\ ~HasDuplicates(m.languages)

(***************************************************************************)
(* Update requests on two stored movies                                    *)
(***************************************************************************)

MaxUpdates == 1

RECURSIVE CreatedInOrder(_)
CreatedInOrder(bodies) ==
  IF bodies = <<>> THEN EmptyDB
  ELSE crud_create_movie(CreatedInOrder(SubSeq(bodies, 1, Len(bodies) - 1)),
                         bodies[Len(bodies)], FALSE).db

\* the storage after two creates that share a genre and a language
StoredPairs ==
  {<<MovieCreateSchema(n1, "d1", "s1", "c1", <<"g1">>, <<"a1">>, <<"l1">>),
     MovieCreateSchema(n2, d2, "s1", c2, <<"g1", "g2">>, <<>>, <<"l1">>)>> :
     n1 \in Names, n2 \in Names, d2 \in Dates, c2 \in {"c2"}}

WideUpdateInputs == UpdateBodies(ScalarFields, 2)

InitUpdate ==
  /\ \E bodies \in StoredPairs :
       /\ bodies[1].name # bodies[2].name \/ bodies[1].date # bodies[2].date
       /\ LET db == CreatedInOrder(bodies)
          IN /\ movies = db.movies
             /\ refs = db.refs
             /\ links = db.links
             /\ nextMovieId = db.nextMovieId
             /\ nextRefId = db.nextRefId
  /\ last = NoResponse
  /\ ncommit = 0
  /\ sess = NoSessions

UpdateStored ==
  ncommit < MaxUpdates /\ \E id \in 1..nextMovieId, data \in WideUpdateInputs : update_movie(id, data)

NextUpdate == UpdateStored

SpecUpdate == InitUpdate /\ [][NextUpdate]_vars

\* C5: an update of an existing movie sets exactly the scalar fields present in
\* the partial body to the body's values; absent fields, the movie's country
\* and links, every other movie and every reference row are unchanged.
C5_UpdateFrame ==
  [][(last'.op = "update" /\ last'.status = 200) =>
       LET id == last'.movie_id
           data == last'.data
       IN /\ \E m \in movies : m.id = id
          /\ \E m \in movies' : m.id = id
          /\ Cardinality(movies') = Cardinality(movies)
          /\ LET old == RowOf(movies, id)
                 new == RowOf(movies', id)
             IN /\ \A f \in ScalarFields :
                     new[f] = IF f \in data.fields_set THEN data.values[f] ELSE old[f]
                /\ new.id = old.id
                /\ new.country_id = old.country_id
          /\ \A m \in movies : m.id # id => m \in movies'
          /\ links' = links
          /\ refs' = refs]_vars

C5_Witness ==
  /\ last.op = "update"
  /\ last.status = 200
  /\ last.data.fields_set = {"score"}
  /\ last.data.values["score"] = "s2"
  /\ Cardinality(movies) = 2
  /\ LET m == RowOf(movies, last.movie_id)
     IN /\ m.score = "s2"
        /\ m.overview = "o1"
        /\ m.status = "Released"
        /\ m.budget = "b1"
        /\ m.revenue = "r1"
        /\ Len(LoadLinked(DB, "genre", m.id)) = 2

(***************************************************************************)
(* The page arithmetic of list_movies over tables of every size            *)
(***************************************************************************)

MaxTotal == 25

\* the storage after n creates with distinct release dates 1..n, one country and no lists
TableOf(n) ==
  [EmptyDB EXCEPT
     !.movies = {[id |-> i, name |-> "n1", date |-> i, score |-> "s1", overview |-> "o1",
                  status |-> "Released", budget |-> "b1", revenue |-> "r1",
                  country_id |-> 1] : i \in 1..n},
     !.refs["country"] = IF n = 0 THEN {} ELSE {[id |-> 1, key |-> "c1"]},
     !.nextMovieId = n + 1,
     !.nextRefId["country"] = IF n = 0 THEN 1 ELSE 2]

InitPaginate ==
  /\ \E n \in 0..MaxTotal :
       LET db == TableOf(n)
       IN /\ movies = db.movies
          /\ refs = db.refs
          /\ links = db.links
          /\ nextMovieId = db.nextMovieId
          /\ nextRefId = db.nextRefId
  /\ last = NoResponse
  /\ ncommit = 0
  /\ sess = NoSessions

NextPaginate ==
  \E page \in PageMin..MaxPage, per_page \in PerPageMin..PerPageMax : list_movies(page, per_page)

SpecPaginate == InitPaginate /\ [][NextPaginate]_vars

\* ceil(total / per_page), as the least number of pages that hold total items
CeilDiv(total, per_page) ==
  CHOOSE n \in 0..total : n * per_page >= total /\ (n = 0 \/ (n - 1) * per_page < total)

PageMath(page, per_page, total, body) ==
  /\ body.total_pages = CeilDiv(total, per_page)
  /\ body.total_items = total
  /\ (body.prev_page # NoLink) <=> (page > 1)
  /\ (body.next_page # NoLink) <=> (page < body.total_pages)
  /\ body.prev_page # NoLink => body.prev_page = PageLink(page - 1, per_page)
  /\ body.next_page # NoLink => body.next_page = PageLink(page + 1, per_page)

\* C7 as stated: for every page >= 1, per_page in 1..20 and total_count >= 0 the
\* list operation reports total_pages = ceil(total_count / per_page), has_prev
\* iff page > 1 and has_next iff page < total_pages; total_count = 0 yields
\* total_pages = 0 with neither link.
C7_PageMathAlways ==
  last.op = "list" =>
    /\ last.status = 200
    /\ PageMath(last.page, last.per_page, Cardinality(movies), last.body)

\* C7 as amended: the list operation reports that page arithmetic exactly when
\* the requested window holds a movie, that is when page <= ceil(total_count /
\* per_page); otherwise (total_count = 0 included) it ends with NotFound (404)
\* and reports no page data.
C7_PageMathWhenFound ==
  last.op = "list" =>
    IF last.page <= CeilDiv(Cardinality(movies), last.per_page)
    THEN /\ last.status = 200
         /\ PageMath(last.page, last.per_page, Cardinality(movies), last.body)
    ELSE /\ last.status = 404
         /\ last.body = {}

C7_Witness ==
  /\ last.op = "list"
  /\ last.status = 200
  /\ last.page = 2
  /\ last.per_page = 10
  /\ Cardinality(movies) = 25
  /\ last.body.total_pages = 3
  /\ last.body.prev_page # NoLink
  /\ last.body.next_page # NoLink

(***************************************************************************)
(* Two create requests running concurrently, each in its own session.      *)
(* A handler runs from one await to the next without interruption, so a    *)
(* step is one storage access.  A session reads the committed tables and   *)
(* the rows it has flushed itself.  Each reference table has a unique key: *)
(* an INSERT of a key that another open transaction has inserted waits for *)
(* that transaction to end, and an INSERT of a committed key raises        *)
(* IntegrityError.  The movies table has no uniqueness constraint.         *)
(***************************************************************************)

Sessions == {"A", "B"}

ConcCreateInputs ==
  {MovieCreateSchema(n, "d1", "s1", c, g, <<"a1">>, l) :
     n \in Names, c \in Countries, g \in {<<>>, <<"g1">>, <<"g1", "g2">>},
     l \in {<<>>, <<"l1">>}}

NoRows == [k \in Kinds |-> {}]
NoObjs == [k \in Kinds |-> <<>>]

IdleSession ==
  [pc |-> "idle", data |-> NoData, todo |-> <<>>, pending |-> NoRows, objs |-> NoObjs,
   status |-> 0, raised |-> None, body |-> {}]

\* what session s reads: the committed tables and its own flushed rows
View(s) == [DB EXCEPT !.refs = [k \in Kinds |-> refs[k] \cup sess[s].pending[k]]]

\* the get-or-create calls of crud.create_movie, in order
Todo(data) ==
  <<<<"country", data.country>>>>
  \o [i \in 1..Len(data.genres) |-> <<"genre", data.genres[i]>>]
  \o [i \in 1..Len(data.actors) |-> <<"actor", data.actors[i]>>]
  \o [i \in 1..Len(data.languages) |-> <<"language", data.languages[i]>>]

\* routes.create_movie up to its first await's result: the existence check
CheckExisting(s) ==
  /\ sess[s].pc = "idle"
  /\ \E data \in ConcCreateInputs :
       LET existing == get_movie_by_name_and_date(View(s), data.name, data.date)
       IN sess' = [sess EXCEPT ![s] =
                     IF existing # {}
                     THEN [@ EXCEPT !.pc = "done", !.data = data, !.status = 409]
                     ELSE [@ EXCEPT !.pc = "select", !.data = data, !.todo = Todo(data)]]
  /\ UNCHANGED <<movies, refs, links, nextMovieId, nextRefId, last, ncommit>>

\* the unique key of a reference table: an INSERT waits while another open
\* transaction holds a flushed row with the key, and is rejected once a row with
\* the key is committed
InsertWaits(s, kind, key) ==
  \E t \in Sessions \ {s} : key \in {r.key : r \in sess[t].pending[kind]}

InsertRejected(kind, key) == key \in {r.key : r \in refs[kind]}

\* _get_or_create_*: the select
SelectRef(s) ==
  /\ sess[s].pc = "select"
  /\ sess[s].todo # <<>>
  /\ LET kind == Head(sess[s].todo)[1]
         key == Head(sess[s].todo)[2]
         obj == select_by_key(View(s), kind, key)
     IN sess' = [sess EXCEPT ![s] =
                   IF obj # {}
                   THEN [@ EXCEPT !.objs[kind] = Append(@, CHOOSE r \in obj : TRUE),
                                  !.todo = Tail(@)]
                   ELSE [@ EXCEPT !.pc = "insert"]]
  /\ UNCHANGED <<movies, refs, links, nextMovieId, nextRefId, last, ncommit>>

\* _get_or_create_*: add and flush, after the select found nothing
InsertRef(s) ==
  /\ sess[s].pc = "insert"
  /\ LET kind == Head(sess[s].todo)[1]
         key == Head(sess[s].todo)[2]
         made == add_and_flush(View(s), kind, key)
     IN /\ ~InsertWaits(s, kind, key)
        /\ IF InsertRejected(kind, key)
           THEN /\ sess' = [sess EXCEPT ![s] =
                              [@ EXCEPT !.pc = "done", !.status = 500,
                                        !.raised = "IntegrityError",
                                        !.pending = NoRows, !.todo = <<>>]]
                /\ UNCHANGED nextRefId
           ELSE /\ sess' = [sess EXCEPT ![s] =
                              [@ EXCEPT !.pc = "select",
                                        !.pending[kind] = @ \cup {made.obj},
                                        !.objs[kind] = Append(@, made.obj),
                                        !.todo = Tail(@)]]
                /\ nextRefId' = made.db.nextRefId
  /\ UNCHANGED <<movies, refs, links, nextMovieId, last, ncommit>>

\* crud.create_movie from MovieModel(...) on: add, commit, re-fetch
CommitMovie(s) ==
  /\ sess[s].pc = "select"
  /\ sess[s].todo = <<>>
  /\ \E link_pk \in BOOLEAN :
       LET o == sess[s].objs
           staged == AddMovie(View(s), sess[s].data, o["country"][1], o["genre"],
                              o["actor"], o["language"])
           done == Commit(DB, staged, link_pk)
       IN /\ SetDB(done.db)
          /\ sess' = [sess EXCEPT ![s] =
                        [@ EXCEPT !.pc = "done",
                                  !.status = IF done.raised = None THEN 201 ELSE 500,
                                  !.raised = done.raised,
                                  !.pending = NoRows,
                                  !.body = IF done.raised = None
                                           THEN get_movie_by_id(done.db, nextMovieId)
                                           ELSE {}]]
  /\ UNCHANGED <<last, ncommit>>

InitConc ==
  /\ SetDBInit
  /\ last = NoResponse
  /\ ncommit = 0
  /\ sess = [s \in Sessions |-> IdleSession]

Check == \E s \in Sessions : CheckExisting(s)
Select == \E s \in Sessions : SelectRef(s)
Insert == \E s \in Sessions : InsertRef(s)
CommitCreate == \E s \in Sessions : CommitMovie(s)

NextConc == Check \/ Select \/ Insert \/ CommitCreate

SpecConc == InitConc /\ [][NextConc]_vars

\* C9: when two concurrent creates both find a reference key absent and both
\* insert it, the loser's duplicate-key conflict reaches its caller as a
\* conflict outcome (409), never as a success and never swallowed, and at most
\* one reference row with that key exists.
C9_RaceSurfacedAsConflict ==
  /\ \A k \in Kinds : UniqueByKey(refs[k])
  /\ \A s \in Sessions :
       sess[s].raised = "IntegrityError" =>
         /\ sess[s].pc = "done"
         /\ sess[s].status = 409

\* C10: the existence check and the insert of a create are separate steps with
\* no lock between them: a request that passed the check is never answered
\* Conflict, and its commit stores its movie row whatever has been stored
\* since; so two concurrent creates with the same (name, date) pair can both
\* pass the check and both insert.
C10_CheckThenInsertRace ==
  /\ \A s \in Sessions :
       (sess[s].pc = "done" /\ sess[s].raised = None) =>
         \/ /\ sess[s].status = 409
            /\ sess[s].todo = <<>>
            /\ \E m \in movies : SamePair(m, sess[s].data)
         \/ /\ sess[s].status = 201
            /\ \E b \in sess[s].body :
                 /\ SamePair(b, sess[s].data)
                 /\ \E m \in movies : m.id = b.id /\ SamePair(m, b)
  /\ \A s, t \in Sessions :
       (/\ s # t
        /\ sess[s].status = 201
        /\ sess[t].status = 201
        /\ SamePair(sess[s].data, sess[t].data))
       => \E m1, m2 \in movies :
            /\ m1.id # m2.id
            /\ SamePair(m1, sess[s].data)
            /\ SamePair(m2, sess[s].data)

C10_Witness ==
  /\ \A s \in Sessions : sess[s].pc = "done" /\ sess[s].status = 201
  /\ \E m1, m2 \in movies : m1.id # m2.id /\ SamePair(m1, m2)

====
